---- MODULE Spec2Model ----
(***************************************************************************)
(* A model of the scraping pipelines of src/routes/api/dom-api.ts:         *)
(* storiesGenerator, threadsGenerator and commentsGenerator, each a        *)
(* producer (the HTMLRewriter handlers driven by consume(...)) and a       *)
(* consumer (the for-await loop over eventTargetToAsyncIter) that meet in  *)
(* the event queue of the iterator.                                        *)
(*                                                                         *)
(* Strings are sequences of tokens (<<"n", "&amp;", "p">>), records are    *)
(* JavaScript objects kept in a heap and passed by reference: the handlers *)
(* dispatch the object itself, not a copy of it.                           *)
(***************************************************************************)
EXTENDS Integers, Sequences, FiniteSets, TLC

VARIABLES
    pipe,       \* the function that runs: "stories", "threads" or "comments"
    trace,      \* the parser notifications delivered so far, in document order
    prod,       \* consume(transform(response)): "running", "ended", "failed"
    heap,       \* the record objects created so far, by creation order
    post,       \* storiesGenerator's `post`: a heap reference, 0 = undefined
    comment,    \* scrapeComments' `comment`: a heap reference, 0 = undefined
    moreLink,   \* the resolvable promise: <<>> pending, <<v>> resolved with v
    queue,      \* the iterator's unconsumed events (heap references)
    listening,  \* the iterator's 'data' listener is attached
    finished,   \* the iterator has been returned
    cons,       \* the consumer's position
    slot,       \* the event detail the consumer's resolved pull holds, 0 = none
    out,        \* what the generator has yielded to its caller, in order
    closeCount, \* how many times the consumer's loop saw { done: true }
    fn,         \* commentsGenerator's position: "await", "returned" ("none" elsewhere)
    race,       \* commentsGenerator's post.moreLink, the Promise.race
    other       \* a second call of a generator whose callbacks interleave with
                \* this one's: its closure while this one runs (NoPass when
                \* one generator runs alone)

vars == <<pipe, trace, prod, heap, post, comment, moreLink, queue, listening,
          finished, cons, slot, out, closeCount, fn, race, other>>

NoPass == <<>>

----------------------------------------------------------------------------
(* Bounds of the model *)

\* the number of parser notifications of one pass
MaxEvents == 5

----------------------------------------------------------------------------
(* Strings and numbers *)

Digits == <<"0", "1", "2", "3", "4", "5", "6", "7", "8", "9">>

IsDigit(c) == \E d \in 1..10 : Digits[d] = c

DigitVal(c) == (CHOOSE d \in 1..10 : Digits[d] = c) - 1

\* JavaScript's NaN, kept apart from every number the model parses
NaN == -1

\* JavaScript's undefined, where a number is expected
Undefined == -2

IsSpace(c) == c = " "

RECURSIVE trimStart(_)
trimStart(s) ==
    IF s # <<>> /\ IsSpace(Head(s)) THEN trimStart(Tail(s)) ELSE s

RECURSIVE trimEnd(_)
trimEnd(s) ==
    IF s # <<>> /\ IsSpace(s[Len(s)]) THEN trimEnd(SubSeq(s, 1, Len(s) - 1)) ELSE s

trim(s) == trimEnd(trimStart(s))

RECURSIVE DecimalValue(_, _)
DecimalValue(s, acc) ==
    IF s = <<>> THEN acc ELSE DecimalValue(Tail(s), 10 * acc + DigitVal(Head(s)))

\* Number(str): the empty (or blank) string is 0, a digit string its value,
\* anything else NaN
Number(s) ==
    LET t == trim(s) IN
    IF t = <<>> THEN 0
    ELSE IF \A i \in 1..Len(t) : IsDigit(t[i]) THEN DecimalValue(t, 0)
    ELSE NaN

RECURSIVE LeadingDigits(_)
LeadingDigits(s) ==
    IF s # <<>> /\ IsDigit(Head(s)) THEN <<Head(s)>> \o LeadingDigits(Tail(s)) ELSE <<>>

\* parseInt(text, 10): skips leading blanks, reads the digits that follow
parseInt(s) ==
    LET d == LeadingDigits(trimStart(s)) IN
    IF d = <<>> THEN NaN ELSE DecimalValue(d, 0)

\* text?.trimStart().match(/^\d/)
StartsWithDigit(s) ==
    LET t == trimStart(s) IN t # <<>> /\ IsDigit(Head(t))

RECURSIVE GCD(_, _)
GCD(a, b) == IF b = 0 THEN a ELSE GCD(b, a % b)

\* a / b of two JavaScript numbers, b a positive integer: NaN stays NaN, and
\* the quotient of two integers is kept exactly, as the fraction <<p, q>> in
\* lowest terms (it is an integer when q = 1)
Divide(a, b) ==
    IF a = NaN THEN <<NaN, 1>>
    ELSE LET g == GCD(a, b) IN <<a \div g, b \div g>>

\* the decimal digits of a natural number
RECURSIVE Decimal(_)
Decimal(n) == IF n < 10 THEN <<Digits[n + 1]>> ELSE Append(Decimal(n \div 10), Digits[(n % 10) + 1])

\* unescape of html-escaper: an entity becomes the character it names
UnescapeToken(c) ==
    CASE c = "&amp;" -> "&"
      [] c = "&lt;" -> "<"
      [] c = "&gt;" -> ">"
      [] OTHER -> c

unescape(s) == [i \in 1..Len(s) |-> UnescapeToken(s[i])]

----------------------------------------------------------------------------
(* The resolvable promise moreLink *)

resolvablePromise == <<>>

\* a promise settles once: a second resolve changes nothing
Resolve(cell, v) == IF cell = <<>> THEN <<v>> ELSE cell

\* the states of the promise Promise.race returns
NoRace == [st |-> "none", v |-> <<>>]

PendingRace == [st |-> "pending", v |-> <<>>]

Fulfilled(v) == [st |-> "fulfilled", v |-> v]

Rejected == [st |-> "rejected", v |-> <<>>]

\* the first promise of the race to settle settles it
Settle(r, outcome) == IF r.st = "pending" THEN outcome ELSE r

----------------------------------------------------------------------------
(* The iterator of eventTargetToAsyncIter(data, 'data')                    *)

\* newCustomEvent: the event's detail is the object itself
newCustomEvent(o) == o

\* a listener that keeps no queue: an event no pull is waiting for is lost
DispatchEventNoQueue(o) ==
    IF listening /\ cons = "waiting"
    THEN /\ cons' = "got"
         /\ slot' = newCustomEvent(o)
         /\ queue' = queue
    ELSE UNCHANGED <<queue, cons, slot>>

\* data.dispatchEvent(event) runs the iterator's listener synchronously: it
\* resolves a pending pull with the event, or queues the event when no pull
\* is pending (the iterator keeps unconsumed events and unconsumed pulls, as
\* Node's events.on does); the handler that dispatched goes on at once in
\* both cases
DispatchEvent(o) ==
    IF ~listening
    THEN UNCHANGED <<queue, cons, slot>>
    ELSE IF cons = "waiting"
         THEN /\ cons' = "got"
              /\ slot' = newCustomEvent(o)
              /\ queue' = queue
         ELSE /\ queue' = Append(queue, newCustomEvent(o))
              /\ UNCHANGED <<cons, slot>>

\* handlers that dispatch nothing
NoDispatch == UNCHANGED <<queue, cons, slot>>

----------------------------------------------------------------------------
(* The notifications of a pass *)

Event(k, a) == [k |-> k, a |-> a]

\* the id attribute of the next container: its ordinal, or not a number
IdAttrs == {<<Digits[Len(heap) + 2]>>, <<"x">>}

Hrefs == {<<"n", "?", "p">>, <<"n", "&amp;", "p">>}

TextChunks == {<<"a">>}

\* chunks of a comment's body: a blank, a word, a quoted line
BodyChunks == {<<" ">>, <<"a">>, <<">", "q">>}

ScoreChunks == {<<"7", " ", "p">>}

CanParse ==
    /\ prod = "running"
    /\ Len(trace) < MaxEvents
    /\ pipe' = pipe
    /\ fn' = fn
    /\ other' = other

\* a handler that reads a field of an undefined `post` throws a TypeError:
\* the transform stream errors and consume(...) rejects
Throws ==
    /\ prod' = "failed"
    /\ race' = Settle(race, Rejected)
    /\ UNCHANGED <<heap, post, comment, moreLink, queue, listening, finished,
                   cons, slot, out, closeCount>>

\* <ref>.<f> += text
AppendText(ref, f, text) ==
    /\ heap' = [heap EXCEPT ![ref][f] = @ \o text]
    /\ UNCHANGED <<prod, post, comment, moreLink, queue, listening, finished,
                   cons, slot, out, closeCount, race>>

\* if (text?.trimStart().match(/^\d/)) <ref>.<f> = parseInt(text, 10)
AssignInt(ref, f, text) ==
    /\ heap' = IF StartsWithDigit(text)
               THEN [heap EXCEPT ![ref][f] = parseInt(text)]
               ELSE heap
    /\ UNCHANGED <<prod, post, comment, moreLink, queue, listening, finished,
                   cons, slot, out, closeCount, race>>

----------------------------------------------------------------------------
(* storiesGenerator: the handlers *)

\* the object a container starts (url and story, which no claim reads, are
\* left out)
NewPost(id) ==
    [id |-> id, title |-> <<>>, score |-> 0, by |-> <<>>, timeAgo |-> <<>>,
     descendants |-> 0, type |-> "undefined"]

\* .on('.athing[id]')
Athing(a) ==
    /\ pipe = "stories"
    /\ CanParse
    /\ trace' = Append(trace, Event("athing", a))
    /\ IF post # 0 THEN DispatchEvent(post) ELSE NoDispatch
    /\ heap' = Append(heap, NewPost(Number(a)))
    /\ post' = Len(heap) + 1
    /\ UNCHANGED <<prod, comment, moreLink, listening, finished, out, closeCount,
                   race>>

\* .on('.athing[id] > .title > a.titlelink'), text: the selector matches
\* inside a container only, whose handler has set `post`
TitleText(text) ==
    /\ pipe = "stories"
    /\ post # 0
    /\ CanParse
    /\ trace' = Append(trace, Event("title", text))
    /\ AppendText(post, "title", text)

\* .on('.subtext > .score'), text
ScoreText(text) ==
    /\ pipe = "stories"
    /\ CanParse
    /\ trace' = Append(trace, Event("score", text))
    /\ IF post = 0 /\ StartsWithDigit(text)
       THEN Throws
       ELSE AssignInt(post, "score", text)

\* .on('.subtext > .hnuser'), text
UserText(text) ==
    /\ pipe = "stories"
    /\ CanParse
    /\ trace' = Append(trace, Event("hnuser", text))
    /\ IF post = 0 THEN Throws ELSE AppendText(post, "by", text)

\* a handler whose cell takes the last reference matched
MoreLinkElOverwrites(href) ==
    /\ CanParse
    /\ trace' = Append(trace, Event("morelink", href))
    /\ moreLink' = <<unescape(href)>>
    /\ race' = Settle(race, Fulfilled(moreLink'[1]))
    /\ UNCHANGED <<prod, heap, post, comment, queue, listening, finished,
                   cons, slot, out, closeCount>>

\* .on('.morelink[href]') and .on('a.morelink[href][rel="next"]')
MoreLinkEl(href) ==
    /\ CanParse
    /\ trace' = Append(trace, Event("morelink", href))
    /\ moreLink' = Resolve(moreLink, unescape(href))
    /\ race' = Settle(race, Fulfilled(moreLink'[1]))
    /\ UNCHANGED <<prod, heap, post, comment, queue, listening, finished,
                   cons, slot, out, closeCount>>

\* .on('.yclinks') of storiesGenerator
Yclinks ==
    /\ pipe = "stories"
    /\ CanParse
    /\ trace' = Append(trace, Event("yclinks", <<>>))
    /\ IF post # 0 THEN DispatchEvent(post) ELSE NoDispatch
    /\ UNCHANGED <<prod, heap, post, comment, moreLink, listening, finished,
                   out, closeCount, race>>

----------------------------------------------------------------------------
(* scrapeComments: the handlers threadsGenerator registers *)

\* a comment object has no level until the indentation image is seen
NoLevel == <<>>

NewComment(id) ==
    [id |-> id, type |-> "comment", by |-> <<>>, timeAgo |-> <<>>,
     text |-> <<>>, storyTitle |-> <<>>, story |-> Undefined, deleted |-> FALSE,
     level |-> NoLevel]

\* the selectors of scrapeComments carry the prefix: threadsGenerator's match
\* anywhere, commentsGenerator's below a .comment-tree element only
InCommentScope ==
    \/ pipe = "threads"
    \/ pipe = "comments" /\ \E i \in 1..Len(trace) : trace[i].k = "commenttree"

\* .on(`${prefix} .athing.comtr[id]`)
Comtr(a) ==
    /\ InCommentScope
    /\ CanParse
    /\ trace' = Append(trace, Event("comtr", a))
    /\ IF comment # 0 THEN DispatchEvent(comment) ELSE NoDispatch
    /\ heap' = Append(heap, NewComment(Number(a)))
    /\ comment' = Len(heap) + 1
    /\ UNCHANGED <<prod, post, moreLink, listening, finished, out, closeCount,
                   race>>

\* .on(`${prefix} .athing.comtr[id] .commtext`), text: the selector matches
\* inside a comment's container only, whose handler has set `comment`
CommText(text) ==
    /\ InCommentScope
    /\ comment # 0
    /\ CanParse
    /\ trace' = Append(trace, Event("commtext", text))
    /\ AppendText(comment, "text", text)

\* .on('.yclinks') of scrapeComments
YclinksComments ==
    /\ pipe \in {"threads", "comments"}
    /\ CanParse
    /\ trace' = Append(trace, Event("yclinks", <<>>))
    /\ IF comment # 0 THEN DispatchEvent(comment) ELSE NoDispatch
    /\ UNCHANGED <<prod, heap, post, comment, moreLink, listening, finished,
                   out, closeCount, race>>

----------------------------------------------------------------------------
(* consume(r2h(rewriter).transform(response)).then(() => iter.return())     *)

\* a return that leaves the iteration open
IterReturnKeepsOpen ==
    /\ finished' = finished
    /\ listening' = FALSE
    /\ queue' = queue

\* iter.return(): the listener is removed and the iteration is over; the
\* events queued before it stay for the pulls that follow
IterReturn ==
    /\ finished' = TRUE
    /\ listening' = FALSE
    /\ queue' = queue

\* where a pull that resolves { done: true } leaves its caller: the loop of
\* a generator is over ("more": what follows the loop runs), the loop of
\* commentsGenerator's kids ends the sequence
LoopEnd == IF pipe = "comments" /\ fn = "returned" THEN "done" ELSE "more"

\* the markup is exhausted: consume(...) fulfils and iter.return() runs,
\* which resolves a pending pull with { done: true }
StreamEnd ==
    /\ prod = "running"
    /\ prod' = "ended"
    /\ IterReturn
    /\ IF cons = "waiting"
       THEN cons' = LoopEnd /\ closeCount' = closeCount + 1
       ELSE UNCHANGED <<cons, closeCount>>
    /\ race' = Settle(race, Fulfilled(<<>>))
    /\ UNCHANGED <<other, pipe, trace, heap, post, comment, moreLink, slot, out, fn>>

\* the fetch or the parse fails: consume(...) rejects, and the .then
\* callback, which has no rejection handler, never runs
StreamFail ==
    /\ prod = "running"
    /\ prod' = "failed"
    /\ race' = Settle(race, Rejected)
    /\ UNCHANGED <<other, pipe, trace, heap, post, comment, moreLink, queue, listening,
                   finished, cons, slot, out, closeCount, fn>>

----------------------------------------------------------------------------
(* The for-await loops of storiesGenerator and threadsGenerator *)

\* post.type = post.type || 'story'; if (!post.by) post.type = 'job'
Classify(p) ==
    LET t == IF p.type = "undefined" THEN "story" ELSE p.type IN
    [p EXCEPT !.type = IF p.by = <<>> THEN "job" ELSE t]

\* the placeholder body of fixComment
Flagged == <<" ", "[flagged]", " ">>

\* blockquotify of ./util: a paragraph that opens with the quote marker
\* becomes a blockquote
blockquotify(s) ==
    IF Len(s) >= 2 /\ s[1] = "<p>" /\ s[2] = ">"
    THEN <<"<blockquote>", "<p>">> \o SubSeq(s, 3, Len(s)) \o <<"</blockquote>">>
    ELSE s

\* a property that was deleted reads as undefined
NoText == <<"(undefined)">>

\* the string a value turns into when text is appended to it
Str(t) == IF t = NoText THEN <<"undefined">> ELSE t

\* text?.trim() is falsy: no text, or only blanks
Blank(t) == t = NoText \/ trim(t) = <<>>

fixComment(c) ==
    IF ~Blank(c.text)
    THEN [c EXCEPT !.text = blockquotify(<<"<p>">> \o c.text)]
    ELSE [c EXCEPT !.deleted = TRUE, !.text = Flagged]

\* a yielded record: the object, its fields as the caller receives them, and
\* the body the object carried when the loop took it
Yielded(o, h, body) == [k |-> "rec", obj |-> o, rec |-> h[o], body |-> body]

YieldedMore(v) == [k |-> "more", obj |-> 0, rec |-> v, body |-> <<>>]

\* storiesGenerator's loop body: classify the record and yield it
YieldPost ==
    /\ pipe = "stories"
    /\ cons = "got"
    /\ heap' = [heap EXCEPT ![slot] = Classify(@)]
    /\ out' = Append(out, Yielded(slot, heap', <<>>))
    /\ cons' = "idle"
    /\ slot' = 0
    /\ UNCHANGED <<other, pipe, trace, prod, post, comment, moreLink, queue, listening,
                   finished, closeCount, fn, race>>

\* threadsGenerator's loop body: yield fixComment(comment)
YieldComment ==
    /\ pipe = "threads"
    /\ cons = "got"
    /\ heap' = [heap EXCEPT ![slot] = fixComment(@)]
    /\ out' = Append(out, Yielded(slot, heap', heap[slot].text))
    /\ cons' = "idle"
    /\ slot' = 0
    /\ UNCHANGED <<other, pipe, trace, prod, post, comment, moreLink, queue, listening,
                   finished, closeCount, fn, race>>

\* the caller asks for the next value: the loop calls iter.next(), which
\* serves a queued event first, then the end of the iteration, and otherwise
\* leaves the pull pending
Pull ==
    /\ cons = "idle"
    /\ pipe = "comments" => fn = "returned"
    /\ IF queue # <<>>
       THEN /\ cons' = "got"
            /\ slot' = Head(queue)
            /\ queue' = Tail(queue)
            /\ closeCount' = closeCount
       ELSE IF finished
            THEN /\ cons' = LoopEnd
                 /\ closeCount' = closeCount + 1
                 /\ UNCHANGED <<slot, queue>>
            ELSE /\ cons' = "waiting"
                 /\ UNCHANGED <<slot, queue, closeCount>>
    /\ UNCHANGED <<other, pipe, trace, prod, heap, post, comment, moreLink, listening,
                   finished, out, fn, race>>

\* moreLink.resolve(''); yield await moreLink
YieldMore ==
    /\ pipe \in {"stories", "threads"}
    /\ cons = "more"
    /\ moreLink' = Resolve(moreLink, <<>>)
    /\ out' = Append(out, YieldedMore(moreLink'[1]))
    /\ cons' = "last"
    /\ UNCHANGED <<other, pipe, trace, prod, heap, post, comment, queue, listening,
                   finished, slot, closeCount, fn, race>>

\* the caller asks once more and the generator returns
Finish ==
    /\ cons = "last"
    /\ cons' = "done"
    /\ UNCHANGED <<other, pipe, trace, prod, heap, post, comment, moreLink, queue,
                   listening, finished, slot, out, closeCount, fn, race>>

\* the caller stops iterating at a yield: the loop's cleanup calls
\* iter.return(); nothing reaches the rewriter or the response
Cancel ==
    /\ cons = "idle"
    /\ pipe = "comments" => fn = "returned" /\ out # <<>>
    /\ cons' = "cancelled"
    /\ IterReturn
    /\ UNCHANGED <<other, pipe, trace, prod, heap, post, comment, moreLink, slot, out,
                   closeCount, fn, race>>

----------------------------------------------------------------------------
(* The flat pipelines as a whole *)

\* the state at the generator's first pull: the rewriter is built, the
\* stream is being consumed and the loop's first iter.next() is pending
Init ==
    /\ pipe \in {"stories", "threads"}
    /\ trace = <<>>
    /\ prod = "running"
    /\ heap = <<>>
    /\ post = 0
    /\ comment = 0
    /\ moreLink = resolvablePromise
    /\ queue = <<>>
    /\ listening = TRUE
    /\ finished = FALSE
    /\ cons = "waiting"
    /\ slot = 0
    /\ out = <<>>
    /\ closeCount = 0
    /\ fn = "none"
    /\ race = NoRace
    /\ other = NoPass

\* the rewriter's callbacks and the end of the stream
Producer ==
    \/ \E a \in IdAttrs : Athing(a)
    \/ \E t \in TextChunks : TitleText(t)
    \/ \E t \in ScoreChunks : ScoreText(t)
    \/ \E t \in TextChunks : UserText(t)
    \/ \E a \in IdAttrs : Comtr(a)
    \/ \E t \in BodyChunks : CommText(t)
    \/ \E h \in Hrefs : MoreLinkEl(h)
    \/ Yclinks
    \/ YclinksComments
    \/ StreamEnd
    \/ StreamFail

\* the generator's steps, each driven by its caller's pulls
Consumer ==
    \/ YieldPost
    \/ YieldComment
    \/ Pull
    \/ YieldMore
    \/ Finish
    \/ Cancel

Next == Producer \/ Consumer

Spec == Init /\ [][Next]_vars

\* the event loop runs every callback that is ready and the caller keeps
\* pulling; whether the stream fails is the environment's choice
FairSpec == Spec /\ WF_vars(Producer) /\ WF_vars(Consumer)

----------------------------------------------------------------------------
(* commentsGenerator: the header's handlers, the function and its kids *)

\* the `post` commentsGenerator starts from; it has no id yet
NewHeader ==
    [id |-> Undefined, title |-> <<>>, score |-> 0, by |-> <<>>,
     timeAgo |-> <<>>, descendants |-> 0, text |-> <<>>, storyTitle |-> <<>>,
     type |-> "undefined", story |-> Undefined, deleted |-> FALSE]

\* .on('.fatitem .athing[id]')
FatAthing(a) ==
    /\ pipe = "comments"
    /\ CanParse
    /\ trace' = Append(trace, Event("fatathing", a))
    /\ heap' = [heap EXCEPT ![post].id = Number(a)]
    /\ NoDispatch
    /\ UNCHANGED <<prod, post, comment, moreLink, listening, finished, out,
                   closeCount, race>>

\* .on('.fatitem tr:nth-child(4) > td:nth-child(2)'), text
FatText(text) ==
    /\ pipe = "comments"
    /\ CanParse
    /\ trace' = Append(trace, Event("fattext", text))
    /\ heap' = [heap EXCEPT ![post].text = Str(@) \o text]
    /\ NoDispatch
    /\ UNCHANGED <<prod, post, comment, moreLink, listening, finished, out,
                   closeCount, race>>

\* .on('.comment-tree')
CommentTree ==
    /\ pipe = "comments"
    /\ CanParse
    /\ trace' = Append(trace, Event("commenttree", <<>>))
    /\ DispatchEvent(post)
    /\ UNCHANGED <<prod, heap, post, comment, moreLink, listening, finished,
                   out, closeCount, race>>

\* Promise.race([moreLink, x.then(() => '')]) at the time it is built: a
\* reference already captured wins, then the outcome of the stream
NewRace ==
    IF moreLink # <<>> THEN Fulfilled(moreLink[1])
    ELSE IF prod = "ended" THEN Fulfilled(<<>>)
    ELSE IF prod = "failed" THEN Rejected
    ELSE PendingRace

\* `await iter.next()` has resolved, with an event or with the end of the
\* iteration: the function repairs post.text, builds kids and moreLink and
\* returns post
HeaderTaken ==
    /\ pipe = "comments"
    /\ fn = "await"
    /\ cons \in {"got", "more"}
    /\ heap' = [heap EXCEPT ![post].text =
                    IF ~Blank(@) THEN blockquotify(<<"<p>">> \o @) ELSE NoText]
    /\ race' = NewRace
    /\ fn' = "returned"
    /\ cons' = "idle"
    /\ slot' = 0
    /\ UNCHANGED <<other, pipe, trace, prod, post, comment, moreLink, queue, listening,
                   finished, out, closeCount>>

\* the function aMap applies to every event of kids
FixKid(c, story) == fixComment([c EXCEPT !.story = story])

\* kids' loop body: comment.story = post.id; yield fixComment(comment)
YieldKid ==
    /\ pipe = "comments"
    /\ fn = "returned"
    /\ cons = "got"
    /\ heap' = [heap EXCEPT ![slot] = FixKid(@, heap[post].id)]
    /\ out' = Append(out, Yielded(slot, heap', heap[slot].text))
    /\ cons' = "idle"
    /\ slot' = 0
    /\ UNCHANGED <<other, pipe, trace, prod, post, comment, moreLink, queue, listening,
                   finished, closeCount, fn, race>>

\* the state when commentsGenerator reaches `await iter.next()`
InitComments ==
    /\ pipe = "comments"
    /\ trace = <<>>
    /\ prod = "running"
    /\ heap = <<NewHeader>>
    /\ post = 1
    /\ comment = 0
    /\ moreLink = resolvablePromise
    /\ queue = <<>>
    /\ listening = TRUE
    /\ finished = FALSE
    /\ cons = "waiting"
    /\ slot = 0
    /\ out = <<>>
    /\ closeCount = 0
    /\ fn = "await"
    /\ race = NoRace
    /\ other = NoPass

ProducerComments ==
    \/ \E a \in IdAttrs : FatAthing(a)
    \/ \E t \in TextChunks : FatText(t)
    \/ CommentTree
    \/ \E a \in IdAttrs : Comtr(a)
    \/ \E t \in BodyChunks : CommText(t)
    \/ \E h \in Hrefs : MoreLinkEl(h)
    \/ YclinksComments
    \/ StreamEnd
    \/ StreamFail

ConsumerComments ==
    \/ HeaderTaken
    \/ YieldKid
    \/ Pull
    \/ Cancel

NextComments == ProducerComments \/ ConsumerComments

SpecComments == InitComments /\ [][NextComments]_vars

FairSpecComments ==
    SpecComments /\ WF_vars(ProducerComments) /\ WF_vars(ConsumerComments)

----------------------------------------------------------------------------
(* scrapeComments: the indentation of a comment *)

\* the width of the indentation image per level of nesting
unitWidth == 40

\* the deepest nesting of the pages explored
MaxDepth == 2

\* the width attributes of the pages explored: every level up to MaxDepth,
\* and a width between two levels
Widths == {Decimal(d * unitWidth) : d \in 0..MaxDepth} \cup {Decimal(unitWidth + unitWidth \div 2)}

\* a handler that keeps the width as the level, undivided
IndKeepsWidth(width) ==
    /\ InCommentScope
    /\ comment # 0
    /\ CanParse
    /\ trace' = Append(trace, Event("ind", width))
    /\ heap' = [heap EXCEPT ![comment].level = <<Number(width), 1>>]
    /\ UNCHANGED <<prod, post, comment, moreLink, queue, listening, finished,
                   cons, slot, out, closeCount, race>>

\* .on(`${prefix} .athing.comtr[id] .ind > img[src="s.gif"][width]`): the
\* selector matches inside a comment's container only
Ind(width) ==
    /\ InCommentScope
    /\ comment # 0
    /\ CanParse
    /\ trace' = Append(trace, Event("ind", width))
    /\ heap' = [heap EXCEPT ![comment].level = Divide(Number(width), unitWidth)]
    /\ UNCHANGED <<prod, post, comment, moreLink, queue, listening, finished,
                   cons, slot, out, closeCount, race>>

\* threadsGenerator over pages whose comments carry indentation images
InitDepth ==
    /\ pipe = "threads"
    /\ trace = <<>>
    /\ prod = "running"
    /\ heap = <<>>
    /\ post = 0
    /\ comment = 0
    /\ moreLink = resolvablePromise
    /\ queue = <<>>
    /\ listening = TRUE
    /\ finished = FALSE
    /\ cons = "waiting"
    /\ slot = 0
    /\ out = <<>>
    /\ closeCount = 0
    /\ fn = "none"
    /\ race = NoRace
    /\ other = NoPass

ProducerDepth ==
    \/ \E a \in IdAttrs : Comtr(a)
    \/ \E w \in Widths : Ind(w)
    \/ YclinksComments
    \/ StreamEnd

ConsumerDepth ==
    \/ YieldComment
    \/ Pull
    \/ YieldMore
    \/ Finish

NextDepth == ProducerDepth \/ ConsumerDepth

SpecDepth == InitDepth /\ [][NextDepth]_vars

----------------------------------------------------------------------------
(* Two calls at once: each call of a generator has its own closure (post,  *)
(* comment, data, iter, moreLink), and the event loop runs the callbacks   *)
(* of the two calls in any order                                           *)

\* the number of parser notifications of each of two interleaved passes
MaxPassEvents == 3

\* the closure of the call that runs
Closure ==
    [pipe |-> pipe, trace |-> trace, prod |-> prod, heap |-> heap, post |-> post,
     comment |-> comment, moreLink |-> moreLink, queue |-> queue,
     listening |-> listening, finished |-> finished, cons |-> cons,
     slot |-> slot, out |-> out, closeCount |-> closeCount, fn |-> fn,
     race |-> race]

\* the closure of a call of storiesGenerator or threadsGenerator at its
\* first pull
NewClosure(p) ==
    [pipe |-> p, trace |-> <<>>, prod |-> "running", heap |-> <<>>, post |-> 0,
     comment |-> 0, moreLink |-> resolvablePromise, queue |-> <<>>,
     listening |-> TRUE, finished |-> FALSE, cons |-> "waiting", slot |-> 0,
     out |-> <<>>, closeCount |-> 0, fn |-> "none", race |-> NoRace]

\* two calls whose closures hold one moreLink between them
SwitchSharedMoreLink ==
    /\ other # NoPass
    /\ other' = [id |-> 3 - other.id, st |-> Closure]
    /\ pipe' = other.st.pipe
    /\ trace' = other.st.trace
    /\ prod' = other.st.prod
    /\ heap' = other.st.heap
    /\ post' = other.st.post
    /\ comment' = other.st.comment
    /\ moreLink' = moreLink
    /\ queue' = other.st.queue
    /\ listening' = other.st.listening
    /\ finished' = other.st.finished
    /\ cons' = other.st.cons
    /\ slot' = other.st.slot
    /\ out' = other.st.out
    /\ closeCount' = other.st.closeCount
    /\ fn' = other.st.fn
    /\ race' = other.st.race

\* the event loop turns from the callbacks of one call to those of the
\* other: the names post, comment, data, iter and moreLink now stand for
\* the other call's variables
Switch ==
    /\ other # NoPass
    /\ other' = [id |-> 3 - other.id, st |-> Closure]
    /\ pipe' = other.st.pipe
    /\ trace' = other.st.trace
    /\ prod' = other.st.prod
    /\ heap' = other.st.heap
    /\ post' = other.st.post
    /\ comment' = other.st.comment
    /\ moreLink' = other.st.moreLink
    /\ queue' = other.st.queue
    /\ listening' = other.st.listening
    /\ finished' = other.st.finished
    /\ cons' = other.st.cons
    /\ slot' = other.st.slot
    /\ out' = other.st.out
    /\ closeCount' = other.st.closeCount
    /\ fn' = other.st.fn
    /\ race' = other.st.race

\* a call of storiesGenerator, and a call of threadsGenerator beside it
InitTwo ==
    /\ pipe = "stories"
    /\ trace = <<>>
    /\ prod = "running"
    /\ heap = <<>>
    /\ post = 0
    /\ comment = 0
    /\ moreLink = resolvablePromise
    /\ queue = <<>>
    /\ listening = TRUE
    /\ finished = FALSE
    /\ cons = "waiting"
    /\ slot = 0
    /\ out = <<>>
    /\ closeCount = 0
    /\ fn = "none"
    /\ race = NoRace
    /\ other = [id |-> 2, st |-> NewClosure("threads")]

\* the reference of the anchor of each call's page: the two pages differ
OwnHref == IF pipe = "stories" THEN <<"n", "?", "p">> ELSE <<"n", "&amp;", "p">>

\* the rewriter's callbacks of the call that runs
ProducerTwo ==
    \/ Len(trace) < MaxPassEvents /\ Athing(Decimal(Len(heap) + 1))
    \/ Len(trace) < MaxPassEvents /\ Comtr(Decimal(Len(heap) + 1))
    \/ Len(trace) < MaxPassEvents /\ MoreLinkEl(OwnHref)
    \/ Len(trace) < MaxPassEvents /\ Yclinks
    \/ Len(trace) < MaxPassEvents /\ YclinksComments
    \/ StreamEnd

ConsumerTwo ==
    \/ YieldPost
    \/ YieldComment
    \/ Pull
    \/ YieldMore
    \/ Finish

NextTwo == ProducerTwo \/ ConsumerTwo \/ Switch

SpecTwo == InitTwo /\ [][NextTwo]_vars

----------------------------------------------------------------------------
(* storiesGenerator over text the parser splits into chunks *)

\* the score text "12 p", whole and split after its first digit
ScoreSplits == {<<"1", "2", " ", "p">>, <<"1">>, <<"2", " ", "p">>}

\* the title "ab", whole and split
TitleSplits == {<<"a", "b">>, <<"a">>, <<"b">>}

InitChunks ==
    /\ pipe = "stories"
    /\ trace = <<>>
    /\ prod = "running"
    /\ heap = <<>>
    /\ post = 0
    /\ comment = 0
    /\ moreLink = resolvablePromise
    /\ queue = <<>>
    /\ listening = TRUE
    /\ finished = FALSE
    /\ cons = "waiting"
    /\ slot = 0
    /\ out = <<>>
    /\ closeCount = 0
    /\ fn = "none"
    /\ race = NoRace
    /\ other = NoPass

ProducerChunks ==
    \/ \E a \in IdAttrs : Athing(a)
    \/ \E t \in TitleSplits : TitleText(t)
    \/ \E t \in ScoreSplits : ScoreText(t)
    \/ \E t \in TextChunks : UserText(t)
    \/ Yclinks
    \/ StreamEnd

ConsumerChunks ==
    \/ YieldPost
    \/ Pull
    \/ YieldMore
    \/ Finish

NextChunks == ProducerChunks \/ ConsumerChunks

SpecChunks == InitChunks /\ [][NextChunks]_vars

----------------------------------------------------------------------------
(* Reading a pass: the shape of its markup and what came out of it *)

StartKinds == {"athing", "comtr"}

FieldKinds == {"title", "score", "hnuser", "commtext"}

RecordStarts(tr) == SelectSeq(tr, LAMBDA e : e.k \in StartKinds)

HasKind(tr, k) == \E i \in 1..Len(tr) : tr[i].k = k

\* containers and their fields only, a container first
OnlyRecords(tr) ==
    /\ \A i \in 1..Len(tr) : tr[i].k \in StartKinds \cup FieldKinds
    /\ tr # <<>> => tr[1].k \in StartKinds

\* a page of N containers followed by the continuation anchor and the
\* terminal marker
FlatPage(tr) ==
    /\ Len(tr) >= 2
    /\ tr[Len(tr)].k = "yclinks"
    /\ tr[Len(tr) - 1].k = "morelink"
    /\ OnlyRecords(SubSeq(tr, 1, Len(tr) - 2))

\* the beginning of such a page
FlatPagePrefix(tr) ==
    \/ OnlyRecords(tr)
    \/ tr # <<>> /\ tr[Len(tr)].k = "morelink" /\ OnlyRecords(SubSeq(tr, 1, Len(tr) - 1))
    \/ FlatPage(tr)

\* the position in the pass of the notification that created the n-th object
StartPos(tr, n) ==
    CHOOSE p \in 1..Len(tr) :
        /\ tr[p].k \in StartKinds
        /\ Cardinality({q \in 1..p : tr[q].k \in StartKinds}) = n

\* the notifications between the n-th container and the next one
SegmentOf(tr, n) ==
    LET from == StartPos(tr, n)
        ends == {p \in (from + 1)..Len(tr) : tr[p].k \in StartKinds}
        to == IF ends = {} THEN Len(tr)
              ELSE (CHOOSE p \in ends : \A q \in ends : p <= q) - 1
    IN SubSeq(tr, from + 1, to)

\* the attributes (or chunks) of kind k the n-th container's region delivered
Attrs(tr, n, k) ==
    LET seg == SelectSeq(SegmentOf(tr, n), LAMBDA e : e.k = k)
    IN [i \in 1..Len(seg) |-> seg[i].a]

\* the text of a region: its chunks, one after the other
RECURSIVE Join(_)
Join(chunks) == IF chunks = <<>> THEN <<>> ELSE Head(chunks) \o Join(Tail(chunks))

\* the object o was yielded to the caller
Emitted(o) == \E i \in 1..Len(out) : out[i].k = "rec" /\ out[i].obj = o

Returned == cons \in {"last", "done"}

LoopExited == cons \in {"more", "last", "done"}

----------------------------------------------------------------------------
(* C1 *)

\* C1: over a page of N containers followed by the continuation anchor and
\* the terminal marker, under every interleaving of the parser's callbacks
\* with the caller's pulls, the generator yields the containers' records in
\* document order, each once (the i-th value yielded is the i-th object
\* created and carries the i-th container's id), and, once the stream has
\* ended and the loop is over, exactly N records followed by one
\* continuation value: the anchor's reference, unescaped.
C1_FlatPipelineYieldsPage ==
    LET starts == RecordStarts(trace)
        N == Len(starts)
    IN /\ FlatPagePrefix(trace) =>
            \A i \in 1..Len(out) :
                out[i].k = "rec" =>
                    /\ i <= N
                    /\ out[i].obj = i
                    /\ out[i].rec.id = Number(starts[i].a)
       /\ (FlatPage(trace) /\ prod = "ended" /\ Returned) =>
            /\ Len(out) = N + 1
            /\ \A i \in 1..N : out[i].k = "rec"
            /\ out[N + 1].k = "more"
            /\ out[N + 1].rec = unescape(trace[Len(trace) - 1].a)

\* a page of two or more records whose anchor's reference holds an entity
\* has been yielded to the end
C1_Witness ==
    /\ FlatPage(trace)
    /\ Len(RecordStarts(trace)) >= 2
    /\ cons = "done"
    /\ \E i \in 1..Len(trace) : trace[i].k = "morelink" /\ unescape(trace[i].a) # trace[i].a

----------------------------------------------------------------------------
(* C2 *)

\* C2: the continuation is the empty string when no anchor was matched
\* during the pass, and the caller that awaits it is never blocked for ever:
\* as long as the generator has not yielded it (and the caller has not
\* stopped iterating) some step of the pass is still to come.
C2_ContinuationNeverHangs ==
    /\ Returned /\ ~HasKind(trace, "morelink") => out[Len(out)].rec = <<>>
    /\ Returned \/ cons = "cancelled" \/ ENABLED Next

----------------------------------------------------------------------------
(* C3 *)

\* the record under construction
Pending == IF pipe = "stories" THEN post ELSE comment

\* C3: when the stream has ended without the terminal marker and the loop
\* has seen the close signal, the record that was pending at the end of the
\* stream has been yielded.
C3_LastRecordSealedAtEnd ==
    (prod = "ended" /\ LoopExited /\ ~HasKind(trace, "yclinks") /\ Pending # 0) =>
        \E i \in 1..Len(out) : out[i].k = "rec" /\ out[i].obj = Pending

----------------------------------------------------------------------------
(* C4 *)

\* the records the producer has dispatched and no pull has taken
InFlight == Len(queue)

\* C4: at most one record is in flight between the producer and the
\* consumer.
C4_OneInFlight == InFlight <= 1

----------------------------------------------------------------------------
(* C5 *)

\* C5: once the caller has stopped iterating, the parser delivers no further
\* notification of the pass.
C5_CancelHaltsProducer == [][cons = "cancelled" => trace' = trace]_vars

----------------------------------------------------------------------------
(* C6 *)

\* C6: when driving the stream has failed, the consumer is not left with a
\* pending pull (it is given an error), and the record that was under
\* construction at the failure is not yielded.
C6_FailureReachesConsumer ==
    prod = "failed" =>
        /\ cons # "waiting"
        /\ ~HasKind(trace, "yclinks") =>
                \A i \in 1..Len(out) : out[i].k = "rec" => out[i].obj # Pending

----------------------------------------------------------------------------
(* C7 *)

\* C7: the loop sees the close signal at most once, and exactly once when it
\* is over; a pull never stays pending on an exhausted stream; the close
\* signal comes after the stream's end and after every dispatched record
\* was taken (none is queued or held, and the listener is gone), so that no
\* record follows it: the only value yielded after it is the continuation.
C7_CloseSignalOnce ==
    /\ closeCount <= 1
    /\ closeCount = 1 <=> LoopExited
    /\ prod = "ended" => cons # "waiting"
    /\ LoopExited => prod = "ended" /\ queue = <<>> /\ slot = 0 /\ ~listening
    /\ \A i \in 1..Len(out) : out[i].k = "more" => i = Len(out) /\ LoopExited

\* a pass that produced no record at all was closed and ran to its end
C7_Witness ==
    /\ cons = "done"
    /\ closeCount = 1
    /\ heap = <<>>

----------------------------------------------------------------------------
(* C8 *)

\* C8: every record yielded carries a numeric id (a container whose id is
\* not a number yields nothing).
C8_EmittedIdsNumeric ==
    \A i \in 1..Len(out) : out[i].k = "rec" => out[i].rec.id # NaN

----------------------------------------------------------------------------
(* C9 *)

\* C9: every Listing yielded with an empty author has kind job and every
\* Listing yielded with an author has kind story.
C9_JobIffNoAuthor ==
    pipe = "stories" =>
        \A i \in 1..Len(out) :
            out[i].k = "rec" =>
                /\ out[i].rec.by = <<>> => out[i].rec.type = "job"
                /\ out[i].rec.by # <<>> => out[i].rec.type = "story"

----------------------------------------------------------------------------
(* C10 *)

\* C10: every Comment yielded is deleted exactly if the body it carried was
\* empty or blank, and a deleted Comment's body is the placeholder.
C10_DeletedIffBlank ==
    pipe \in {"threads", "comments"} =>
        \A i \in 1..Len(out) :
            out[i].k = "rec" =>
                /\ out[i].rec.deleted <=> Blank(out[i].body)
                /\ out[i].rec.deleted => out[i].rec.text = Flagged

----------------------------------------------------------------------------
(* C11 *)

\* C11: for every depth in 0..MaxDepth, a comment the generator has yielded
\* whose indentation image has the width depth * unitWidth carries exactly
\* that depth as its level (the fraction depth / 1).
C11_MultipleOfUnitGivesDepth ==
    pipe = "threads" =>
        \A o \in 1..Len(heap) : \A depth \in 0..MaxDepth :
            LET widths == Attrs(trace, o, "ind") IN
            (/\ Emitted(o)
             /\ widths # <<>>
             /\ Number(widths[Len(widths)]) = depth * unitWidth)
            => heap[o].level = <<depth, 1>>

\* a comment at the deepest level after one at level 1, both yielded
C11_Witness ==
    /\ pipe = "threads"
    /\ Len(heap) >= 2
    /\ Emitted(1) /\ Emitted(2)
    /\ Attrs(trace, 1, "ind") = <<Decimal(unitWidth)>>
    /\ Attrs(trace, 2, "ind") = <<Decimal(MaxDepth * unitWidth)>>
    /\ heap[1].level = <<1, 1>>
    /\ heap[2].level = <<MaxDepth, 1>>

----------------------------------------------------------------------------
(* C12 *)

\* C12: every comment the generator has yielded has a level that is a
\* non-negative integer, the integer quotient of the width of its
\* indentation image by unitWidth, whatever the width (a multiple of
\* unitWidth or not) and also when the comment had no indentation image.
C12_DepthIsIntegerQuotient ==
    pipe = "threads" =>
        \A o \in 1..Len(heap) :
            LET widths == Attrs(trace, o, "ind") IN
            Emitted(o) =>
                /\ heap[o].level # NoLevel
                /\ heap[o].level[2] = 1
                /\ heap[o].level[1] >= 0
                /\ widths # <<>> =>
                       heap[o].level[1] = Number(widths[Len(widths)]) \div unitWidth

----------------------------------------------------------------------------
(* C13 *)

\* what a call that runs alone yields over a page (C1), read on a closure
YieldsOwnPage(f) ==
    LET starts == RecordStarts(f.trace)
        N == Len(starts)
    IN /\ FlatPagePrefix(f.trace) =>
            \A i \in 1..Len(f.out) :
                f.out[i].k = "rec" =>
                    /\ i <= N
                    /\ f.out[i].obj = i
                    /\ f.out[i].rec.id = Number(starts[i].a)
       /\ (FlatPage(f.trace) /\ f.prod = "ended" /\ f.cons \in {"last", "done"}) =>
            /\ Len(f.out) = N + 1
            /\ \A i \in 1..N : f.out[i].k = "rec"
            /\ f.out[N + 1].k = "more"
            /\ f.out[N + 1].rec = unescape(f.trace[Len(f.trace) - 1].a)

\* the closure's promise holds nothing but a reference of the call's own
\* stream (or the empty string of the call's own loop), and the call has
\* yielded nothing else as its continuation
OwnContinuation(f) ==
    LET own == {unescape(f.trace[i].a) : i \in {j \in 1..Len(f.trace) : f.trace[j].k = "morelink"}}
    IN /\ f.moreLink # <<>> => f.moreLink[1] \in own \cup {<<>>}
       /\ \A i \in 1..Len(f.out) : f.out[i].k = "more" => f.out[i].rec \in own \cup {<<>>}

\* the objects in the closure's queue and in the call's output are objects
\* the call's own containers created
OwnRecords(f) ==
    LET own == 1..Len(RecordStarts(f.trace))
    IN /\ \A i \in 1..Len(f.queue) : f.queue[i] \in own
       /\ \A i \in 1..Len(f.out) : f.out[i].k = "rec" => f.out[i].obj \in own
       /\ f.post \in own \cup {0}
       /\ f.comment \in own \cup {0}

\* C13: when a call of storiesGenerator and a call of threadsGenerator run
\* at once over streams of their own, whatever the order of their callbacks
\* and pulls, each yields what it yields when it runs alone: over a page its
\* containers' records in order and then its own anchor's reference, and
\* over any stream only records its own containers created and only a
\* continuation its own stream (or its own loop) resolved.
C13_CallsDoNotInterfere ==
    other # NoPass =>
        \A f \in {Closure, other.st} :
            YieldsOwnPage(f) /\ OwnContinuation(f) /\ OwnRecords(f)

\* both calls have yielded a page to the end, each page with an anchor of
\* its own, the second call having finished first
C13_Witness ==
    /\ other # NoPass
    /\ other.id = 2
    /\ cons = "last"
    /\ other.st.cons = "done"
    /\ FlatPage(trace) /\ FlatPage(other.st.trace)
    /\ Len(out) = 2 /\ Len(other.st.out) = 2
    /\ out[2].rec # other.st.out[2].rec

----------------------------------------------------------------------------
(* C14 *)

\* C14: in commentsGenerator the header object is dispatched once and is
\* the first event the function takes: the event `await iter.next()`
\* resolves with is the header and no comment, the header is never queued
\* behind it nor taken again, no value of kids is the header, and once the
\* stream has ended and the function has returned, the header's terminal
\* marker has dispatched it (whether .comment-tree matched once, more than
\* once or not at all).
C14_HeaderFirstAndOnce ==
    pipe = "comments" =>
        /\ (fn = "await" /\ slot # 0) => slot = post
        /\ fn = "returned" => slot # post
        /\ \A i \in 1..Len(queue) : queue[i] # post
        /\ \A i \in 1..Len(out) : out[i].k = "rec" => out[i].obj # post
        /\ (fn = "returned" /\ prod = "ended") => HasKind(trace, "commenttree")

----------------------------------------------------------------------------
(* C15 *)

\* C15: every record storiesGenerator has yielded carries, in each field
\* fed by text (title, by, score), the value it has when the whole text of
\* the field's region arrives as one chunk, however the parser split that
\* text: the text itself for title and by, and for score the number the
\* whole text begins with (0, the container's value, when it begins with
\* none).
C15_ValueIgnoresChunking ==
    pipe = "stories" =>
        \A o \in 1..Len(heap) :
            LET whole == Join(Attrs(trace, o, "score")) IN
            Emitted(o) =>
                /\ heap[o].title = Join(Attrs(trace, o, "title"))
                /\ heap[o].by = Join(Attrs(trace, o, "hnuser"))
                /\ heap[o].score = IF StartsWithDigit(whole) THEN parseInt(whole) ELSE 0

----------------------------------------------------------------------------
(* C16 *)

\* the references of the anchors matched so far, in document order
Anchors == SelectSeq(trace, LAMBDA e : e.k = "morelink")

\* C16: moreLink is assigned once: as soon as an anchor has matched, the
\* promise holds the first anchor's reference (unescaped), whatever anchors
\* match after it, and the continuation the generator yields after its loop
\* is that reference, not the empty string of `moreLink.resolve('')`; the
\* empty string is the value only when no anchor matched.
C16_FirstAnchorIsContinuation ==
    /\ Anchors # <<>> => moreLink = <<unescape(Anchors[1].a)>>
    /\ \A i \in 1..Len(out) :
            out[i].k = "more" =>
                /\ moreLink = <<out[i].rec>>
                /\ out[i].rec = IF Anchors # <<>> THEN unescape(Anchors[1].a) ELSE <<>>

\* two anchors with different references have matched, the loop has ended
\* and the generator has yielded the continuation after its fallback
C16_Witness ==
    /\ Len(Anchors) >= 2
    /\ unescape(Anchors[1].a) # unescape(Anchors[2].a)
    /\ cons = "done"
    /\ out # <<>>
    /\ out[Len(out)].k = "more"
    /\ out[Len(out)].rec = unescape(Anchors[1].a)

----------------------------------------------------------------------------
(* C17 *)

\* C17: the continuation is observable only once the records are drained:
\* storiesGenerator and threadsGenerator yield it as their last value, after
\* the loop has ended with nothing left in the iterator's queue, and the
\* promise post.moreLink of commentsGenerator is not fulfilled while an
\* event of the pass is still in the iterator's queue or in the hands of
\* kids' loop.
C17_ContinuationAfterDrain ==
    /\ pipe \in {"stories", "threads"} =>
            \A i \in 1..Len(out) :
                out[i].k = "more" => i = Len(out) /\ queue = <<>> /\ Returned
    /\ pipe = "comments" =>
            (race.st = "fulfilled" => queue = <<>> /\ slot = 0)

----------------------------------------------------------------------------
(* C18 *)

\* the objects the producer has dispatched: in the iterator's queue, in the
\* consumer's hands or yielded
Handed == {o \in 1..Len(heap) : slot = o \/ Emitted(o) \/ \E i \in 1..Len(queue) : queue[i] = o}

\* C18: a record is complete when it is dispatched: no callback of the
\* parser (a field's, a container's or the terminal marker's) changes an
\* object that has been dispatched.
C18_HandedRecordsAreFrozen ==
    [][trace' # trace => \A o \in Handed : heap'[o] = heap[o]]_vars

----------------------------------------------------------------------------
(* C19 *)

\* how many times the object o has been dispatched to a listening iterator:
\* its events in the queue, in the consumer's hands and yielded
Dispatches(o) ==
    (IF slot = o THEN 1 ELSE 0)
    + Cardinality({i \in 1..Len(queue) : queue[i] = o})
    + Cardinality({i \in 1..Len(out) : out[i].k = "rec" /\ out[i].obj = o})

\* C19: every object is dispatched at most once, over every sequence of
\* notifications: after .yclinks has dispatched the pending object, neither
\* a second .yclinks nor a further container dispatches it again.
C19_DispatchedAtMostOnce ==
    \A o \in 1..Len(heap) : Dispatches(o) <= 1

----------------------------------------------------------------------------
(* C20 *)

\* C20: whenever a field handler of storiesGenerator or threadsGenerator
\* runs, a record is in progress, and a field notification that arrives
\* before the first container of the pass leaves the stream running (it
\* does not make the pass fail, which would keep the close signal from the
\* consumer).
C20_FieldHandlerHasRecord ==
    [][(trace' # trace /\ trace'[Len(trace')].k \in FieldKinds) =>
            /\ Pending # 0
            /\ RecordStarts(trace) = <<>> => prod' = "running"]_vars

====
